---------------------------- MODULE Spec2Model ----------------------------
(***************************************************************************)
(* Model of the sgqlite ingestion engine (src/src/main.rs, with the        *)
(* Ingestor of src/src/ingest.rs): the reference diff (compare_refs), the  *)
(* revision walk set up by main, the recursive tree ingestion              *)
(* (insert_tree) and the single transaction of a run.                      *)
(*                                                                         *)
(* A run of `main` is cut into steps at the places where it can fail: the  *)
(* reference diff, the walker set-up and BEGIN, one step per walker item,  *)
(* one per tree entry, one per blob, one per commit row, and COMMIT.       *)
(* An early return through `?` drops the transaction, which rolls it back. *)
(***************************************************************************)
EXTENDS Naturals, Sequences, FiniteSets, Bags, TLC

(***************************************************************************)
(* Bounds of the model.                                                    *)
(***************************************************************************)
MaxRuns == 2
MaxRefUpdates == 1

\* The kind column is a u8; the tags read back are taken from 0..MaxTag
MaxTag == 7

(***************************************************************************)
(* The repository: a fixed object graph, read through git2.                *)
(***************************************************************************)
NoOid == "none"

CommitOids == {"c1", "c2", "c3", "c4"}

\* commit.parent_ids(), in parent order
CommitParents(c) ==
    CASE c = "c1" -> << >>
      [] c = "c2" -> <<"c1">>
      [] c = "c3" -> <<"c1">>
      [] c = "c4" -> <<"c2", "c3">>

\* commit.tree_id()
CommitTree(c) ==
    CASE c = "c1" -> "tA"
      [] c = "c2" -> "tB"
      [] c = "c3" -> "tC"
      [] c = "c4" -> "tD"

TreeOids == {"tA", "tB", "tC", "tD", "tS", "tU"}

BlobOids == {"b1", "b2"}

\* tree.into_iter(): the entries of a tree, in tree order.  kind is
\* tree_obj.kind(), an Option<ObjectType>.
TreeObjs(t) ==
    CASE t = "tA" -> << [name |-> "f", kind |-> "Blob", id |-> "b1"] >>
      [] t = "tB" -> << [name |-> "d", kind |-> "Tree", id |-> "tS"],
                        [name |-> "f", kind |-> "Blob", id |-> "b1"] >>
      [] t = "tS" -> << [name |-> "g", kind |-> "Blob", id |-> "b2"],
                        [name |-> "u", kind |-> "Tree", id |-> "tU"] >>
      [] t = "tU" -> << [name |-> "h", kind |-> "Blob", id |-> "b1"] >>
      [] t = "tC" -> << [name |-> "e", kind |-> "Tree", id |-> "tS"],
                        [name |-> "m", kind |-> "Commit", id |-> "x1"],
                        [name |-> "n", kind |-> "Tag", id |-> "x2"],
                        [name |-> "o", kind |-> "Any", id |-> "x3"],
                        [name |-> "p", kind |-> "None", id |-> "x4"] >>
      [] t = "tD" -> << [name |-> "d", kind |-> "Tree", id |-> "tS"],
                        [name |-> "e", kind |-> "Tree", id |-> "tS"] >>

\* blob.content()
BlobContent(b) ==
    CASE b = "b1" -> <<104, 105>>
      [] b = "b2" -> <<121, 111>>

\* References of the repository under refs/heads/ whose state varies, and
\* one outside the glob.
HeadRefs == {"refs/heads/main", "refs/heads/dev"}
TagRef == "refs/tags/v1"
RefValues == CommitOids \cup {"absent", "symbolic"}

\* repo.references_glob("refs/heads/*")
GlobMatches(name) == name \in HeadRefs

RepoId == 1
OtherRepoId == RepoId + 1

(***************************************************************************)
(* The store.  A table is a bag of rows; the keys of the three content     *)
(* tables come from the schema (migrations/1.up.sql).                      *)
(***************************************************************************)
CommitsKey(r) == r.oid
TreeEntriesKey(r) == <<r.tree_oid, r.name, r.kind, r.oid>>
BlobsKey(r) == r.oid

Rows(table) == BagToSet(table)

Insert(table, row) == table (+) SetToBag({row})

\* INSERT OR IGNORE: the row is left out when a row with its key exists
TreeEntryConflict(table, row) ==
    \E r \in Rows(table) : TreeEntriesKey(r) = TreeEntriesKey(row)

CommitConflict(table, row) ==
    \E r \in Rows(table) : CommitsKey(r) = CommitsKey(row)

BlobConflict(table, row) ==
    \E r \in Rows(table) : BlobsKey(r) = BlobsKey(row)

\* A plain INSERT, without OR IGNORE
TreeEntryStmtPlain(table, row) == Insert(table, row)

\* The prepared statements of main (lines 70-98) and of Ingestor::new
TreeEntryStmt(table, row) ==
    IF TreeEntryConflict(table, row) THEN table ELSE Insert(table, row)

\* ... RETURNING *: the rows the statement has written
TreeEntryStmtRows(table, row) ==
    IF TreeEntryConflict(table, row) THEN {} ELSE {row}

\* A statement that empties the table before it inserts
CommitStmtTruncates(table, row) == SetToBag({row})

\* A blob statement that writes nothing
BlobInsertStmtNone(table, row) == table

CommitStmt(table, row) ==
    IF CommitConflict(table, row) THEN table ELSE Insert(table, row)

BlobInsertStmt(table, row) ==
    IF BlobConflict(table, row) THEN table ELSE Insert(table, row)

(***************************************************************************)
(* Pure functions of the program.                                          *)
(***************************************************************************)
Range(s) == {s[i] : i \in DOMAIN s}

\* An encoding that gives tags the tag after the last known one
object_type_to_int_wide(kind) ==
    CASE kind = "None" -> 0
      [] kind = "Any" -> 1
      [] kind = "Commit" -> 2
      [] kind = "Tree" -> 3
      [] kind = "Blob" -> 4
      [] kind = "Tag" -> 6

object_type_to_int(kind) ==
    CASE kind = "None" -> 0
      [] kind = "Any" -> 1
      [] kind = "Commit" -> 2
      [] kind = "Tree" -> 3
      [] kind = "Blob" -> 4
      [] kind = "Tag" -> 5

object_type_from_int(val) ==
    CASE val = 0 -> "None"
      [] val = 1 -> "Any"
      [] val = 2 -> "Commit"
      [] val = 3 -> "Tree"
      [] val = 4 -> "Blob"
      [] val = 5 -> "Tag"
      [] OTHER -> "panic"

\* TreeEntry::try_from(row)
TreeEntryFromRow(row) ==
    [tree_oid |-> row.tree_oid, name |-> row.name,
     kind |-> object_type_from_int(row.kind), oid |-> row.oid]

\* The row insert_tree binds for entry tree_obj of tree
TreeEntryRow(tree, tree_obj) ==
    [tree_oid |-> tree, name |-> tree_obj.name,
     kind |-> object_type_to_int(tree_obj.kind), oid |-> tree_obj.id]

\* Oid::as_bytes(): the hash as its bytes
OidLen == 20
OidBytes(oid) == [i \in 1..OidLen |-> <<oid, i>>]

\* A serialisation that puts the last parent first
RECURSIVE ConcatBytesReversed(_)
ConcatBytesReversed(oids) ==
    IF oids = << >> THEN << >>
    ELSE ConcatBytesReversed(Tail(oids)) \o OidBytes(Head(oids))

\* main, lines 112-115: parents.extend(parent.as_bytes()) for each parent
RECURSIVE ConcatBytes(_)
ConcatBytes(oids) ==
    IF oids = << >> THEN << >>
    ELSE OidBytes(Head(oids)) \o ConcatBytes(Tail(oids))

\* The row main binds for commit_stmt
CommitRow(c) ==
    [oid |-> c, tree_oid |-> CommitTree(c), message |-> <<"message", c>>,
     parents |-> ConcatBytes(CommitParents(c)),
     author_name |-> "author", author_email |-> "author@example",
     author_date |-> 1,
     committer_name |-> "committer", committer_email |-> "committer@example",
     committer_date |-> 2]

\* EncoderBuilder::new().level(10).favor_dec_speed(true), write_all, finish
Lz4Encode(content) ==
    [codec |-> "lz4", level |-> 10, favor_dec_speed |-> TRUE, frame |-> content]

\* The encoder built on the vector dst writes its frame after what dst holds
Lz4Write(dst, content) == dst \o <<Lz4Encode(content)>>

\* main, line 172: dst is a new vector
BlobRow(oid) == [oid |-> oid, content_lz4 |-> Lz4Write(<< >>, BlobContent(oid))]

\* The references of the repository: the heads and a tag outside the glob
RepoRefs(live) ==
    [n \in HeadRefs \cup {TagRef} |-> IF n = TagRef THEN "c4" ELSE live[n]]

\* compare_refs: the temporary table new_refs, then the FULL JOIN with the
\* rows of direct_refs of this repo_id, WHERE new_oid IS NOT NULL.
NewRefs(live) ==
    {[name |-> n, oid |-> RepoRefs(live)[n]] :
        n \in {m \in DOMAIN RepoRefs(live) :
                 GlobMatches(m) /\ RepoRefs(live)[m] \in CommitOids}}

OldRefs(refs_table, repo_id) ==
    {[name |-> r.name, oid |-> r.target_oid] :
        r \in {q \in refs_table : q.repo_id = repo_id}}

FullJoin(old_refs, new_refs) ==
    {[name |-> o.name, old_target |-> o.oid, new_target |-> n.oid] :
        <<o, n>> \in {p \in old_refs \X new_refs : p[1].name = p[2].name}}
    \cup {[name |-> o.name, old_target |-> o.oid, new_target |-> NoOid] :
            o \in {q \in old_refs : \A n \in new_refs : n.name # q.name}}
    \cup {[name |-> n.name, old_target |-> NoOid, new_target |-> n.oid] :
            n \in {q \in new_refs : \A o \in old_refs : o.name # q.name}}

\* A query without its WHERE clause
JoinFilterNone(row) == TRUE

JoinFilter(row) == row.new_target # NoOid

compare_refs(refs_table, repo_id, live) ==
    {row \in FullJoin(OldRefs(refs_table, repo_id), NewRefs(live)) :
        JoinFilter(row)}

\* main, lines 59-66: what the loop pushes and what it hides
Pushed(diffs) == {d.new_target : d \in {e \in diffs : e.new_target # NoOid}}

\* A loop that never calls walker.hide
HiddenNothing(diffs) == {}

Hidden(diffs) == {d.old_target : d \in {e \in diffs : e.old_target # NoOid}}

\* git2's revwalk: the commits reachable through parent links
RECURSIVE Reachable(_)
Reachable(tips) ==
    LET next == tips \cup UNION {Range(CommitParents(c)) : c \in tips}
    IN IF next = tips THEN tips ELSE Reachable(next)

\* what a walker with these pushes and hides yields
WalkSet(pushed, hidden) == Reachable(pushed) \ Reachable(hidden)

\* Sort::TOPOLOGICAL alone: children before parents
ReadyChildrenFirst(c, walk, yielded) ==
    \A d \in walk : c \in Range(CommitParents(d)) => d \in Range(yielded)

\* Sort::TOPOLOGICAL | Sort::REVERSE: a commit may be yielded once all its
\* parents in the walk have been
Ready(c, walk, yielded) ==
    \A p \in Range(CommitParents(c)) : p \in walk => p \in Range(yielded)

\* An insert_tree that goes on whether or not the row was written
IsSomeAlways(new_entries) == TRUE

\* insert_tree, lines 154-159: `new` is Some when the statement returned a row
IsSome(new_entries) == new_entries # {}

\* insert_tree, lines 160 and 168: what a written entry leads to
RecursesNever(new_entry) == FALSE

Recurses(new_entry) == new_entry.kind = "Tree"

\* An insert_tree without the blob branch
ChecksBlobNever(new_entry) == FALSE

\* An `else` without the test of the kind
ChecksBlobElse(new_entry) == TRUE

ChecksBlob(new_entry) == new_entry.kind = "Blob"

\* A check that never finds the row
BlobExistsNever(table, oid) == FALSE

\* blob_exists_stmt
BlobExists(table, oid) == \E r \in Rows(table) : r.oid = oid

(***************************************************************************)
(* State.                                                                  *)
(***************************************************************************)
VARIABLES
    liveRefs,      \* the repository: target of each head ("absent", "symbolic" or a commit)
    direct_refs,   \* durable table direct_refs: rows [repo_id, name, target_oid]
    commits,       \* durable table commits
    tree_entries,  \* durable table tree_entries
    blobs,         \* durable table blobs
    tx,            \* the three tables as the open transaction sees them
    pc,            \* where main is: "idle", "refs", "walk", "tree", "blob", "commit", "done"
    changed_refs,  \* main's changed_refs
    yielded,       \* the commits the walker has yielded in this run, in order
    stack,         \* the calls of insert_tree in progress: [tree, idx]
    new_entry,     \* the written entry whose blob is being handled
    result,        \* how the last run ended: "none", "ok", "err_refs", "err_tx", "panic"
    runs,          \* runs started
    updates,       \* reference updates made to the repository
    preRun,        \* the durable tables when the run started
    unchanged,     \* a run has committed and the repository is as it was then
    repeat,        \* the run started with unchanged true
    log,           \* the repository reads and store statements of the run
    atCommit,      \* the tables of the transaction when the walker yielded Cur
    blobReads      \* per blob, the find_blob calls of committed runs

vars == <<liveRefs, direct_refs, commits, tree_entries, blobs, tx, pc,
          changed_refs, yielded, stack, new_entry, result, runs, updates,
          preRun, unchanged, repeat, log, atCommit, blobReads>>

Durable == [commits |-> commits, tree_entries |-> tree_entries, blobs |-> blobs]

EmptyStore ==
    [commits |-> EmptyBag, tree_entries |-> EmptyBag, blobs |-> EmptyBag]

NoEntry == [tree_oid |-> NoOid, name |-> "", kind |-> "None", oid |-> NoOid]

\* The tables direct_refs may hold when a run starts: the engine reads the
\* table and never writes it, so its content is an input.  A row of another
\* repository is always there.
DirectRefsInputs ==
    {main \cup dev \cup other :
        main \in {{}} \cup
            {{[repo_id |-> RepoId, name |-> "refs/heads/main", target_oid |-> c]} :
                c \in {"c1", "c2"}},
        dev \in {{}, {[repo_id |-> RepoId, name |-> "refs/heads/dev",
                       target_oid |-> "c3"]}},
        other \in {{[repo_id |-> OtherRepoId, name |-> "refs/heads/main",
                      target_oid |-> "c4"]}}}

Init ==
    /\ liveRefs \in [HeadRefs -> RefValues]
    /\ direct_refs \in DirectRefsInputs
    /\ commits = EmptyBag
    /\ tree_entries = EmptyBag
    /\ blobs = EmptyBag
    /\ tx = EmptyStore
    /\ pc = "idle"
    /\ changed_refs = {}
    /\ yielded = << >>
    /\ stack = << >>
    /\ new_entry = NoEntry
    /\ result = "none"
    /\ runs = 0
    /\ updates = 0
    /\ preRun = EmptyStore
    /\ unchanged = FALSE
    /\ repeat = FALSE
    /\ log = << >>
    /\ atCommit = EmptyStore
    /\ blobReads = [b \in BlobOids |-> 0]

\* The commits of the run whose tree is ingested and whose row is written
Processed ==
    IF pc \in {"tree", "blob", "commit"}
    THEN SubSeq(yielded, 1, Len(yielded) - 1)
    ELSE yielded

\* The commit being processed
Cur == yielded[Len(yielded)]

Event(op, entry) == [commit |-> Cur, op |-> op, entry |-> entry]

(***************************************************************************)
(* The repository changes between runs.                                    *)
(***************************************************************************)
RefUpdate ==
    /\ pc = "idle"
    /\ runs < MaxRuns
    /\ updates < MaxRefUpdates
    /\ \E n \in HeadRefs, v \in RefValues :
          /\ v # liveRefs[n]
          /\ liveRefs' = [liveRefs EXCEPT ![n] = v]
    /\ updates' = updates + 1
    /\ unchanged' = FALSE
    /\ UNCHANGED <<direct_refs, commits, tree_entries, blobs, tx, pc,
                   changed_refs, yielded, stack, new_entry, result, runs,
                   preRun, repeat, log, blobReads, atCommit>>

\* A drop that commits what the transaction wrote
AfterDropKeepsWrites(durable, view) == view

\* What is durable once a transaction is dropped without commit():
\* rusqlite rolls it back.
AfterDrop(durable, view) == durable

\* The database a connection works on: the durable tables and the
\* connection's temporary table new_refs
Database ==
    [direct_refs |-> direct_refs, commits |-> commits,
     tree_entries |-> tree_entries, blobs |-> blobs, new_refs |-> {}]

\* compare_refs, lines 277-291: what its transaction holds once the
\* references are inserted into new_refs
RefsTx(db, live) == [db EXCEPT !.new_refs = NewRefs(live)]

\* A compare_refs that records the live targets in direct_refs and commits
CompareRefsLeavesUpdated(db, live) ==
    [db EXCEPT !.direct_refs =
        {r \in db.direct_refs :
            r.repo_id # RepoId \/ \A n \in NewRefs(live) : n.name # r.name}
        \cup {[repo_id |-> RepoId, name |-> n.name, target_oid |-> n.oid] :
                n \in NewRefs(live)}]

\* compare_refs, lines 266-316: the database once it has returned; its
\* transaction is never committed
CompareRefsLeaves(db, live) == AfterDrop(db, RefsTx(db, live))

(***************************************************************************)
(* main, line 54: the reference diff.  compare_refs fills the temporary    *)
(* table inside a transaction of its own, reads the FULL JOIN and returns, *)
(* which drops the transaction uncommitted.                                *)
(***************************************************************************)
CompareRefs ==
    /\ pc = "idle"
    /\ runs < MaxRuns
    /\ changed_refs' = compare_refs(direct_refs, RepoId, liveRefs)
    /\ LET left == CompareRefsLeaves(Database, liveRefs)
       IN /\ direct_refs' = left.direct_refs
          /\ commits' = left.commits
          /\ tree_entries' = left.tree_entries
          /\ blobs' = left.blobs
    /\ pc' = "refs"
    /\ runs' = runs + 1
    /\ preRun' = Durable
    /\ repeat' = unchanged
    /\ UNCHANGED <<liveRefs, tx, yielded, stack, new_entry, result, updates,
                   unchanged, log, blobReads, atCommit>>

(***************************************************************************)
(* compare_refs returns an error (references_glob, a statement): `?` makes *)
(* main return it.                                                         *)
(***************************************************************************)
CompareRefsErr ==
    /\ pc = "idle"
    /\ runs < MaxRuns
    /\ LET left == CompareRefsLeaves(Database, liveRefs)
       IN /\ direct_refs' = left.direct_refs
          /\ commits' = left.commits
          /\ tree_entries' = left.tree_entries
          /\ blobs' = left.blobs
    /\ pc' = "done"
    /\ result' = "err_refs"
    /\ runs' = runs + 1
    /\ preRun' = Durable
    /\ repeat' = unchanged
    /\ UNCHANGED <<liveRefs, tx, changed_refs, yielded, stack, new_entry,
                   updates, unchanged, log, blobReads, atCommit>>

(***************************************************************************)
(* main, lines 57-98: the walker is set up and the transaction begins.     *)
(***************************************************************************)
Begin ==
    /\ pc = "refs"
    /\ tx' = Durable
    /\ pc' = "walk"
    /\ UNCHANGED <<liveRefs, direct_refs, commits, tree_entries, blobs,
                   changed_refs, yielded, stack, new_entry, result, runs,
                   updates, preRun, unchanged, repeat, log, blobReads,
                   atCommit>>

\* What the walker of this run yields
Walk == WalkSet(Pushed(changed_refs), Hidden(changed_refs))

(***************************************************************************)
(* main, lines 99-110: the walker yields a commit; find_commit and         *)
(* commit.tree(), then insert_tree is called on the root tree.             *)
(***************************************************************************)
NextCommit ==
    /\ pc = "walk"
    /\ \E c \in Walk \ Range(yielded) :
          /\ Ready(c, Walk, yielded)
          /\ yielded' = Append(yielded, c)
          /\ stack' = << [tree |-> CommitTree(c), idx |-> 1] >>
    /\ pc' = "tree"
    /\ atCommit' = tx
    /\ UNCHANGED <<liveRefs, direct_refs, commits, tree_entries, blobs, tx,
                   changed_refs, new_entry, result, runs, updates, preRun,
                   unchanged, repeat, log, blobReads>>

Top == stack[Len(stack)]

\* The frame of the running insert_tree, moved to its next entry
Advance == [stack EXCEPT ![Len(stack)].idx = @ + 1]

(***************************************************************************)
(* insert_tree, lines 143-167: one entry of the tree.  The conditional     *)
(* insert returns the row when it wrote it; a written tree entry is        *)
(* entered at once (find_tree and the call), a written blob entry goes on  *)
(* to the blob step, and nothing more is done for any other entry.  A      *)
(* returned row whose kind tag object_type_from_int does not know makes    *)
(* TreeEntry::try_from panic: the process unwinds and the transaction is   *)
(* dropped.                                                                *)
(***************************************************************************)
VisitEntry ==
    /\ pc = "tree"
    /\ Top.idx <= Len(TreeObjs(Top.tree))
    /\ LET row == TreeEntryRow(Top.tree, TreeObjs(Top.tree)[Top.idx])
           new_entries == TreeEntryStmtRows(tx.tree_entries, row)
           written == IsSome(new_entries)
           new == TreeEntryFromRow(row)
           panics == new_entries # {} /\ new.kind = "panic"
           ev == Event("insert_tree_entry",
                       [row |-> row, added |-> new_entries # {},
                        decoded |-> IF new_entries # {} THEN new.kind ELSE "None"])
           after == [tx EXCEPT !.tree_entries = TreeEntryStmt(tx.tree_entries, row)]
           dropped == AfterDrop(Durable, after)
       IN IF panics
          THEN /\ commits' = dropped.commits
               /\ tree_entries' = dropped.tree_entries
               /\ blobs' = dropped.blobs
               /\ tx' = dropped
               /\ stack' = << >>
               /\ pc' = "done"
               /\ result' = "panic"
               /\ new_entry' = new_entry
               /\ log' = Append(log, ev)
          ELSE /\ UNCHANGED <<commits, tree_entries, blobs, result>>
               /\ tx' = after
               /\ IF written /\ Recurses(new)
                  THEN /\ stack' = Append(Advance, [tree |-> new.oid, idx |-> 1])
                       /\ pc' = "tree"
                       /\ new_entry' = new_entry
                       /\ log' = log \o <<ev, Event("find_tree", row)>>
                  ELSE IF written /\ ChecksBlob(new)
                  THEN /\ stack' = Advance
                       /\ pc' = "blob"
                       /\ new_entry' = new
                       /\ log' = Append(log, ev)
                  ELSE /\ stack' = Advance
                       /\ pc' = "tree"
                       /\ new_entry' = new_entry
                       /\ log' = Append(log, ev)
    /\ UNCHANGED <<liveRefs, direct_refs, changed_refs, yielded, runs,
                   updates, preRun, unchanged, repeat, blobReads, atCommit>>

(***************************************************************************)
(* insert_tree, lines 168-184: the blob of a written blob entry.           *)
(***************************************************************************)
BlobStep ==
    /\ pc = "blob"
    /\ LET row == [tree_oid |-> new_entry.tree_oid, name |-> new_entry.name,
                   kind |-> object_type_to_int(new_entry.kind),
                   oid |-> new_entry.oid]
           exists == BlobExists(tx.blobs, new_entry.oid)
       IN IF exists
          THEN /\ tx' = tx
               /\ log' = Append(log, Event("blob_exists", row))
          ELSE /\ tx' = [tx EXCEPT !.blobs =
                           BlobInsertStmt(tx.blobs, BlobRow(new_entry.oid))]
               /\ log' = log \o <<Event("blob_exists", row),
                                  Event("find_blob", row),
                                  Event("insert_blob", row)>>
    /\ pc' = "tree"
    /\ new_entry' = NoEntry
    /\ UNCHANGED <<liveRefs, direct_refs, commits, tree_entries, blobs,
                   changed_refs, yielded, stack, result, runs, updates,
                   preRun, unchanged, repeat, blobReads, atCommit>>

(***************************************************************************)
(* insert_tree, line 187: the entries are done, the call returns; the      *)
(* return of the call on the root tree takes main to the commit row.       *)
(***************************************************************************)
ReturnTree ==
    /\ pc = "tree"
    /\ Top.idx > Len(TreeObjs(Top.tree))
    /\ stack' = SubSeq(stack, 1, Len(stack) - 1)
    /\ pc' = IF Len(stack) = 1 THEN "commit" ELSE "tree"
    /\ UNCHANGED <<liveRefs, direct_refs, commits, tree_entries, blobs, tx,
                   changed_refs, yielded, new_entry, result, runs, updates,
                   preRun, unchanged, repeat, log, blobReads, atCommit>>

(***************************************************************************)
(* main, lines 112-128: the commit row.                                    *)
(***************************************************************************)
InsertCommit ==
    /\ pc = "commit"
    /\ tx' = [tx EXCEPT !.commits = CommitStmt(tx.commits, CommitRow(Cur))]
    /\ log' = Append(log, Event("insert_commit", CommitRow(Cur).oid))
    /\ pc' = "walk"
    /\ UNCHANGED <<liveRefs, direct_refs, commits, tree_entries, blobs,
                   changed_refs, yielded, stack, new_entry, result, runs,
                   updates, preRun, unchanged, repeat, blobReads, atCommit>>

\* find_blob calls in a log, for blob b
Reads(events, b) ==
    Cardinality({i \in DOMAIN events :
                    events[i].op = "find_blob" /\ events[i].entry.oid = b})

(***************************************************************************)
(* main, line 132: the walker is exhausted, tx.commit().                   *)
(***************************************************************************)
Commit ==
    /\ pc = "walk"
    /\ Walk \ Range(yielded) = {}
    /\ commits' = tx.commits
    /\ tree_entries' = tx.tree_entries
    /\ blobs' = tx.blobs
    /\ blobReads' = [b \in BlobOids |-> blobReads[b] + Reads(log, b)]
    /\ pc' = "done"
    /\ result' = "ok"
    /\ unchanged' = TRUE
    /\ UNCHANGED <<liveRefs, direct_refs, tx, changed_refs, yielded, stack,
                   new_entry, runs, updates, preRun, repeat, log, atCommit>>

(***************************************************************************)
(* A repository read, a statement or the compression fails inside the      *)
(* transaction: `?` returns from main and the transaction is dropped.      *)
(***************************************************************************)
Abort ==
    /\ pc \in {"walk", "tree", "blob", "commit"}
    /\ LET d == AfterDrop(Durable, tx)
       IN /\ commits' = d.commits
          /\ tree_entries' = d.tree_entries
          /\ blobs' = d.blobs
          /\ tx' = d
    /\ pc' = "done"
    /\ result' = "err_tx"
    /\ stack' = << >>
    /\ new_entry' = NoEntry
    /\ UNCHANGED <<liveRefs, direct_refs, changed_refs, yielded, runs,
                   updates, preRun, unchanged, repeat, log, blobReads,
                   atCommit>>

(***************************************************************************)
(* main, lines 54-68: the walker set-up or BEGIN fails; nothing is open.   *)
(***************************************************************************)
AbortRefs ==
    /\ pc = "refs"
    /\ pc' = "done"
    /\ result' = "err_refs"
    /\ UNCHANGED <<liveRefs, direct_refs, commits, tree_entries, blobs, tx,
                   changed_refs, yielded, stack, new_entry, runs, updates,
                   preRun, unchanged, repeat, log, blobReads, atCommit>>

(***************************************************************************)
(* main has returned: the process ends and its memory is gone.             *)
(***************************************************************************)
Exit ==
    /\ pc = "done"
    /\ pc' = "idle"
    /\ changed_refs' = {}
    /\ yielded' = << >>
    /\ log' = << >>
    /\ result' = "none"
    /\ preRun' = Durable
    /\ repeat' = FALSE
    /\ atCommit' = EmptyStore
    /\ UNCHANGED <<liveRefs, direct_refs, commits, tree_entries, blobs, tx,
                   stack, new_entry, runs, updates, unchanged, blobReads>>

Next ==
    \/ RefUpdate
    \/ CompareRefs
    \/ CompareRefsErr
    \/ Begin
    \/ NextCommit
    \/ VisitEntry
    \/ BlobStep
    \/ ReturnTree
    \/ InsertCommit
    \/ Commit
    \/ Abort
    \/ AbortRefs
    \/ Exit

Spec == Init /\ [][Next]_vars

(***************************************************************************)
(* Reading a row back.  TreeEntry::try_from takes the kind column as a u8  *)
(* and hands it to object_type_from_int: the rows it may be given are all  *)
(* the rows the table can hold, whatever wrote them.                       *)
(***************************************************************************)
KindTags == 0..MaxTag

\* The entries of tree t under every tag the column holds
StoredRowsOf(t) ==
    {[TreeEntryRow(t, TreeObjs(t)[i]) EXCEPT !.kind = k] :
        i \in DOMAIN TreeObjs(t), k \in KindTags}

DecodeInit ==
    /\ \E t \in TreeOids : \E row \in StoredRowsOf(t) :
          /\ tree_entries = SetToBag({row})
          /\ tx = [EmptyStore EXCEPT !.tree_entries = SetToBag({row})]
    /\ liveRefs = [n \in HeadRefs |-> "absent"]
    /\ direct_refs = {}
    /\ commits = EmptyBag
    /\ blobs = EmptyBag
    /\ pc = "tree"
    /\ changed_refs = {}
    /\ yielded = << >>
    /\ stack = << >>
    /\ new_entry = NoEntry
    /\ result = "none"
    /\ runs = 1
    /\ updates = 0
    /\ preRun = EmptyStore
    /\ unchanged = FALSE
    /\ repeat = FALSE
    /\ log = << >>
    /\ atCommit = EmptyStore
    /\ blobReads = [b \in BlobOids |-> 0]

(***************************************************************************)
(* insert_tree, lines 143-157: the statement yields a row, the closure of  *)
(* query_map decodes it and `new = Some(new_entry?)` keeps the entry.  A   *)
(* panic of the decoder unwinds main: the transaction is dropped.          *)
(***************************************************************************)
ReadBack ==
    /\ pc = "tree"
    /\ new_entry = NoEntry
    /\ result = "none"
    /\ \E row \in Rows(tx.tree_entries) :
          LET new == TreeEntryFromRow(row)
              dropped == AfterDrop(Durable, tx)
          IN IF new.kind = "panic"
             THEN /\ tx' = dropped
                  /\ pc' = "done"
                  /\ result' = "panic"
                  /\ new_entry' = new_entry
             ELSE /\ tx' = tx
                  /\ pc' = pc
                  /\ result' = result
                  /\ new_entry' = new
    /\ UNCHANGED <<liveRefs, direct_refs, commits, tree_entries, blobs,
                   changed_refs, yielded, stack, runs, updates, preRun,
                   unchanged, repeat, log, blobReads, atCommit>>

DecodeNext ==
    \/ ReadBack
    \/ Exit

SpecDecode == DecodeInit /\ [][DecodeNext]_vars

(***************************************************************************)
(* ingest.rs: the Ingestor.  It holds the four statements of main,         *)
(* prepared on a transaction it borrows, and a buffer for the compressed   *)
(* blobs.  Lines 137-188 of ingest.rs repeat object_type_to_int,           *)
(* object_type_from_int and TreeEntry::try_from of main.rs word for word.  *)
(* self is the Ingestor with what its transaction sees (store) and the     *)
(* operations it has sent to the store and to the repository (ops).  The   *)
(* operation sent when fuel is 0 returns an error, which `?` hands up to   *)
(* the caller of add_commit.                                               *)
(***************************************************************************)
IngestorNew(tx_view, fuel) ==
    [store |-> tx_view, buf |-> << >>, ops |-> << >>, fuel |-> fuel,
     failed |-> FALSE]

\* One operation: it fails when the fuel is spent, and else is recorded and
\* leaves the store as `after`
Exec(self, op, arg, after) ==
    IF self.failed THEN self
    ELSE IF self.fuel = 0 THEN [self EXCEPT !.failed = TRUE]
    ELSE [self EXCEPT !.fuel = @ - 1,
                      !.ops = Append(@, [op |-> op, arg |-> arg]),
                      !.store = after]

\* A clear that leaves the vector as it is
VecClearKeeps(v) == v

\* Vec::clear
VecClear(v) == << >>

\* Ingestor::blob_exists, the answer of the query
blob_exists(self, oid) == \E b \in Rows(self.store.blobs) : b.oid = oid

\* Ingestor::insert_blob_content: the buffer is taken, which leaves
\* self.buf empty, cleared, written by the encoder, bound to the statement
\* and put back
insert_blob_content(self, oid) ==
    LET dst0 == VecClear(self.buf)
        taken == [self EXCEPT !.buf = << >>]
        found == Exec(taken, "find_blob", oid, taken.store)
        dst == Lz4Write(dst0, BlobContent(oid))
        done == Exec(found, "insert_blob", oid,
                     [found.store EXCEPT !.blobs =
                         BlobInsertStmt(@, [oid |-> oid, content_lz4 |-> dst])])
    IN IF done.failed THEN done ELSE [done EXCEPT !.buf = dst]

\* Ingestor::add_tree from entry i of the tree on
RECURSIVE add_tree_from(_, _, _)
add_tree_from(self, tree, i) ==
    IF self.failed \/ i > Len(TreeObjs(tree)) THEN self
    ELSE LET row == TreeEntryRow(tree, TreeObjs(tree)[i])
             new_entries == TreeEntryStmtRows(self.store.tree_entries, row)
             inserted ==
                 Exec(self, "insert_tree_entry",
                      [row |-> row, added |-> new_entries # {}],
                      [self.store EXCEPT !.tree_entries = TreeEntryStmt(@, row)])
             new_entry_ == TreeEntryFromRow(row)
             child ==
                 IF inserted.failed \/ new_entries = {} THEN inserted
                 ELSE IF new_entry_.kind = "Tree"
                 THEN add_tree_from(
                          Exec(inserted, "find_tree", new_entry_.oid, inserted.store),
                          new_entry_.oid, 1)
                 ELSE IF new_entry_.kind = "Blob"
                 THEN LET checked == Exec(inserted, "blob_exists",
                                          new_entry_.oid, inserted.store)
                      IN IF checked.failed \/ blob_exists(checked, new_entry_.oid)
                         THEN checked
                         ELSE insert_blob_content(checked, new_entry_.oid)
                 ELSE inserted
         IN add_tree_from(child, tree, i + 1)

\* Ingestor::add_tree
add_tree(self, tree) == add_tree_from(self, tree, 1)

\* Ingestor::add_commit
add_commit(self, commit_oid) ==
    LET trees == add_tree(self, CommitTree(commit_oid))
    IN Exec(trees, "insert_commit", commit_oid,
            [trees.store EXCEPT !.commits = CommitStmt(@, CommitRow(commit_oid))])

\* add_commit called on the commits of a sequence, one after the other,
\* until one returns an error
RECURSIVE add_commits(_, _)
add_commits(self, commit_oids) ==
    IF commit_oids = << >> \/ self.failed THEN self
    ELSE add_commits(add_commit(self, Head(commit_oids)), Tail(commit_oids))

(***************************************************************************)
(* Properties.                                                             *)
(***************************************************************************)
InTx == pc \in {"walk", "tree", "blob", "commit"}

Ops(op) == {i \in DOMAIN log : log[i].op = op}

\* C1: a run that fails after the transaction is opened leaves the durable
\* commits, tree_entries and blobs tables exactly as they were before the
\* run, whatever it had written for the commits it had already processed.
C1_Atomicity ==
    (pc = "done" /\ result = "err_tx") => Durable = preRun

\* A run that failed after writing the row of a commit and going on
C1_Witness ==
    /\ pc = "done"
    /\ result = "err_tx"
    /\ \E i \in Ops("insert_commit") : i < Len(log)

\* C2: a run against the unchanged repository, after a run that committed,
\* adds no row to commits, tree_entries and blobs: the transaction never
\* holds more than the tables held before it, and neither do the tables
\* once it has committed.
C2_SecondRunAddsNothing ==
    repeat =>
        /\ InTx => tx = preRun
        /\ (pc = "done" /\ result = "ok") => Durable = preRun

\* A second run that has processed commits again over a filled store
C2_Witness ==
    /\ repeat
    /\ pc = "done"
    /\ result = "ok"
    /\ Len(yielded) >= 2
    /\ Ops("insert_tree_entry") # {}
    /\ Rows(commits) # {}

\* C3: in a run against the unchanged repository, after a run that
\* committed, the reference diff is empty and the walker yields no commit.
C3_SecondRunIsEmpty ==
    (repeat /\ pc # "idle") => (changed_refs = {} /\ yielded = << >>)

\* C4: once a run has committed, direct_refs holds for the run's repo_id
\* and every live direct reference under the glob a row with its live
\* target.
C4_RefsRecorded ==
    (pc = "done" /\ result = "ok") =>
        \A n \in NewRefs(liveRefs) :
            \E r \in direct_refs :
                /\ r.repo_id = RepoId
                /\ r.name = n.name
                /\ r.target_oid = n.oid

\* a is d or an ancestor of d through parent links
RECURSIVE IsAncestorOrSelf(_, _)
IsAncestorOrSelf(a, d) ==
    \/ a = d
    \/ \E p \in Range(CommitParents(d)) : IsAncestorOrSelf(a, p)

FromNew(c) ==
    \E d \in changed_refs :
        d.new_target # NoOid /\ IsAncestorOrSelf(c, d.new_target)

FromOld(c) ==
    \E d \in changed_refs :
        d.old_target # NoOid /\ IsAncestorOrSelf(c, d.old_target)

\* C5: the commits a run processes are each processed once, are all
\* reachable from some pair's new_target and from no pair's old_target
\* (jointly over the pairs, the old_target itself excluded), and a run that
\* reaches its commit has processed exactly those.
C5_WalkIsRange ==
    /\ \A i, j \in DOMAIN yielded : yielded[i] = yielded[j] => i = j
    /\ \A c \in Range(yielded) : FromNew(c) /\ ~FromOld(c)
    /\ (pc = "done" /\ result = "ok") =>
          Range(yielded) = {c \in CommitOids : FromNew(c) /\ ~FromOld(c)}

\* A committed run of two pairs, one with an old_target whose ancestor is
\* reachable from the other pair's new_target, that processed a commit
C5_Witness ==
    /\ pc = "done"
    /\ result = "ok"
    /\ yielded # << >>
    /\ \E d, e \in changed_refs :
          /\ d.name # e.name
          /\ d.old_target # NoOid
          /\ d.old_target # d.new_target
          /\ \E c \in CommitOids \ Range(yielded) :
                /\ c # d.old_target
                /\ IsAncestorOrSelf(c, d.old_target)
                /\ IsAncestorOrSelf(c, e.new_target)

\* C6: within a run a processed commit comes after each of its parents
\* that the run processes too, and when its processing starts the tree of
\* such a parent has been ingested and its row written.
C6_ParentsFirst ==
    /\ \A i, j \in DOMAIN yielded :
          yielded[i] \in Range(CommitParents(yielded[j])) => i < j
    /\ pc \in {"tree", "blob", "commit"} =>
          \A p \in Range(CommitParents(Cur)) :
              (FromNew(p) /\ ~FromOld(p)) =>
                  /\ p \in Range(Processed)
                  /\ \E r \in Rows(tx.commits) : r.oid = p

\* The merge commit being processed after both of its parents
C6_Witness ==
    /\ pc = "commit"
    /\ Cur = "c4"
    /\ {"c2", "c3"} \subseteq Range(Processed)

\* C7: compare_refs emits a triple only for a reference with a live target
\* that differs from the recorded target or has none recorded.
C7_OnlyChangedRefs ==
    \A d \in changed_refs :
        /\ d.new_target # NoOid
        /\ d.old_target # d.new_target

\* The store holds the row of every entry of tree t and of every tree
\* under it, and the blob of every blob entry among them
RECURSIVE TreeClosed(_, _)
TreeClosed(t, store) ==
    \A i \in DOMAIN TreeObjs(t) :
        LET obj == TreeObjs(t)[i]
        IN /\ \E r \in Rows(store.tree_entries) :
                 /\ r.tree_oid = t
                 /\ r.name = obj.name
                 /\ r.kind = object_type_to_int(obj.kind)
                 /\ r.oid = obj.id
           /\ obj.kind = "Tree" => TreeClosed(obj.id, store)
           /\ obj.kind = "Blob" => \E b \in Rows(store.blobs) : b.oid = obj.id

CommitsClosed(store) ==
    \A r \in Rows(store.commits) : TreeClosed(r.tree_oid, store)

\* C8: whenever a Commit row is in the store, committed or inside the
\* transaction of a run, the store holds the TreeEntry rows of the commit's
\* whole tree and the Blob rows of its blob entries.
C8_CommitRowsClosed ==
    CommitsClosed(Durable) /\ CommitsClosed(tx)

\* Inside a transaction: a commit row is written and the tree of the next
\* commit is half ingested (an entry row is written, its blob is not)
C8_Witness ==
    /\ pc = "blob"
    /\ Rows(tx.commits) # {}
    /\ ~TreeClosed(CommitTree(Cur), tx)
    /\ Len(stack) >= 2

\* t and the trees under it
RECURSIVE Under(_)
Under(t) ==
    {t} \cup UNION {Under(TreeObjs(t)[i].id) :
                      i \in {j \in DOMAIN TreeObjs(t) : TreeObjs(t)[j].kind = "Tree"}}

\* The events of the commit being processed
NowEvents == {i \in DOMAIN log : log[i].commit = Cur}

\* The tree whose entry event i of the log is about
EventTree(i) ==
    IF log[i].op = "insert_tree_entry"
    THEN log[i].entry.row.tree_oid
    ELSE log[i].entry.tree_oid

\* C9: when tree T and everything under it is in the store as the
\* processing of a commit starts, that processing does nothing for the
\* entries of T and of the trees under T but the conditional insert that
\* finds the row: no recursion, no blob check, read or insert, no new row.
C9_KnownSubtreeSkipped ==
    pc \in {"tree", "blob", "commit"} =>
        \A t \in TreeOids :
            TreeClosed(t, atCommit) =>
                \A i \in NowEvents :
                    (log[i].op # "insert_commit" /\ EventTree(i) \in Under(t))
                    => (log[i].op = "insert_tree_entry" /\ ~log[i].entry.added)

\* tS, in the store since an earlier commit as entry d of tB, is met as
\* entry e of tC: it is read again and its entries have all been visited
C9_Witness ==
    /\ pc = "tree"
    /\ Cur = "c3"
    /\ TreeClosed("tS", atCommit)
    /\ Top.tree = "tS"
    /\ Top.idx > Len(TreeObjs("tS"))
    /\ \E i \in NowEvents :
          /\ log[i].op = "find_tree"
          /\ log[i].entry.tree_oid = "tC"
          /\ log[i].entry.oid = "tS"

BlobRowsOf(store, b) == {r \in Rows(store.blobs) : r.oid = b}

\* C10: the blobs table has at most one row per blob hash, a blob is read
\* and inserted only when no row for its hash exists, and over the runs
\* that committed each blob was read at most once.
C10_BlobOnce ==
    /\ \A st \in {Durable, tx} : \A b \in BlobOids :
          /\ Cardinality(BlobRowsOf(st, b)) <= 1
          /\ \A r \in BlobRowsOf(st, b) : CopiesIn(r, st.blobs) = 1
    /\ \A i \in Ops("find_blob") \cup Ops("insert_blob") :
          /\ BlobRowsOf(preRun, log[i].entry.oid) = {}
          /\ \A j \in Ops("insert_blob") :
                j < i => log[j].entry.oid # log[i].entry.oid
    /\ \A b \in BlobOids : blobReads[b] <= 1

\* After two committed runs blob b1, which three entries reference, has
\* been read once
C10_Witness ==
    /\ pc = "done"
    /\ result = "ok"
    /\ runs = 2
    /\ blobReads["b1"] = 1
    /\ Cardinality({r \in Rows(tree_entries) : r.oid = "b1"}) = 3
    /\ Cardinality(BlobRowsOf(Durable, "b1")) = 1

\* Every row of table a is in table b, as many times
Grows(a, b) == \A r \in Rows(a) : CopiesIn(r, b) >= CopiesIn(r, a)

\* No row of table b has the key of a row of table a and differs from it
KeepsCommits(a, b) ==
    \A r \in Rows(a) : \A q \in Rows(b) : q.oid = r.oid => q = r

KeepsBlobs(a, b) ==
    \A r \in Rows(a) : \A q \in Rows(b) : q.oid = r.oid => q = r

StoreGrows(a, b) ==
    /\ Grows(a.commits, b.commits)
    /\ Grows(a.tree_entries, b.tree_entries)
    /\ Grows(a.blobs, b.blobs)
    /\ KeepsCommits(a.commits, b.commits)
    /\ KeepsBlobs(a.blobs, b.blobs)

\* C11: no step of a run deletes or changes a Commit, TreeEntry or Blob
\* row: the durable tables only grow, so do the tables of a transaction
\* while it is open, and a row whose key is present stays as it was.
C11_RowsOnlyGrow ==
    [][/\ StoreGrows(Durable, Durable')
       /\ (InTx /\ InTx') => StoreGrows(tx, tx')]_vars

\* A transaction over a filled store in which an insert found its key
\* present and another added a row
C11_Witness ==
    /\ InTx
    /\ Rows(commits) # {}
    /\ \E i \in Ops("insert_tree_entry") : ~log[i].entry.added
    /\ \E i \in Ops("insert_tree_entry") : log[i].entry.added
    /\ \E i \in Ops("insert_commit") : i < Len(log)

\* The kind tag of section 6 of the specification
KindTag(kind) ==
    CASE kind = "None" -> 0
      [] kind = "Any" -> 1
      [] kind = "Commit" -> 2
      [] kind = "Tree" -> 3
      [] kind = "Blob" -> 4
      [] kind = "Tag" -> 5

\* The entry of the repository that a row of tree_entries was written for
RepoObj(row) ==
    TreeObjs(row.tree_oid)[CHOOSE j \in DOMAIN TreeObjs(row.tree_oid) :
                              TreeObjs(row.tree_oid)[j].name = row.name]

OtherKinds == {"None", "Any", "Commit", "Tag"}

\* C12: an entry whose kind is neither tree nor blob is recorded as a
\* TreeEntry row with its kind tag, and no recursion, blob check, blob read
\* or blob insert is ever made for it.
C12_OtherKindsOnlyRecorded ==
    /\ \A i \in Ops("insert_tree_entry") :
          LET row == log[i].entry.row
          IN (log[i].entry.added /\ RepoObj(row).kind \in OtherKinds) =>
                /\ row.kind = KindTag(RepoObj(row).kind)
                /\ row.oid = RepoObj(row).id
                /\ InTx => row \in Rows(tx.tree_entries)
                /\ (pc = "done" /\ result = "ok") => row \in Rows(tree_entries)
    /\ \A i \in DOMAIN log :
          log[i].op \in {"find_tree", "blob_exists", "find_blob", "insert_blob"}
              => RepoObj(log[i].entry).kind \notin OtherKinds
    /\ pc = "blob" => new_entry.kind \notin OtherKinds
    /\ \A k \in 2..Len(stack) :
          \E j \in DOMAIN TreeObjs(stack[k - 1].tree) :
              /\ TreeObjs(stack[k - 1].tree)[j].id = stack[k].tree
              /\ TreeObjs(stack[k - 1].tree)[j].kind = "Tree"

\* The tree of c3 is ingested: its submodule, tag, "any" and unknown
\* entries each have their row
C12_Witness ==
    /\ pc = "commit"
    /\ Cur = "c3"
    /\ \A k \in {0, 1, 2, 5} :
          \E r \in Rows(tx.tree_entries) : r.tree_oid = "tC" /\ r.kind = k

\* C13: every triple compare_refs emits has a new_target, which is the live
\* target of a direct reference under the glob; a reference that is only
\* recorded in direct_refs (deleted in the repository), a symbolic one and
\* one outside the glob produce no triple.
C13_TriplesAreLive ==
    /\ \A d \in changed_refs :
          /\ d.new_target # NoOid
          /\ d.name \in HeadRefs
          /\ liveRefs[d.name] \in CommitOids
          /\ d.new_target = liveRefs[d.name]
    /\ \A n \in HeadRefs \cup {TagRef} :
          (n = TagRef \/ liveRefs[n] \in {"absent", "symbolic"}) =>
              \A d \in changed_refs : d.name # n

\* The diff of a repository whose recorded head is deleted and whose other
\* head is symbolic
C13_Witness ==
    /\ pc = "refs"
    /\ changed_refs = {}
    /\ \E r \in direct_refs :
          /\ r.repo_id = RepoId
          /\ r.name \in HeadRefs
          /\ liveRefs[r.name] = "absent"
    /\ \E n \in HeadRefs : liveRefs[n] = "symbolic"

Visits == Ops("insert_tree_entry")

AddedOf(kind) ==
    {i \in Visits : log[i].entry.added /\ log[i].entry.row.kind = kind}

\* Event i is the last of the log and what follows it has not happened yet
Pending(i) == i = Len(log) /\ (pc = "blob" \/ result = "err_tx")

\* Event i is followed by nothing done for its entry: the log ends or goes
\* on with the next entry or with the commit row
NothingFurther(i) ==
    i = Len(log) \/ log[i + 1].op \in {"insert_tree_entry", "insert_commit"}

\* C15: for each entry visited, a conditional insert that is a no-op is
\* followed by nothing for that entry; one that adds a row is followed by
\* exactly one recursion for a tree-kind entry and by exactly one
\* blob-existence check for a blob-kind entry; so the subtree reads are as
\* many as the added tree-kind rows and the blob-existence checks as many
\* as the added blob-kind rows.
C15_OneStepPerNewRow ==
    /\ \A i \in Visits :
          LET e == log[i].entry
          IN /\ ~e.added => NothingFurther(i)
             /\ (e.added /\ e.row.kind = object_type_to_int("Tree")) =>
                   /\ i < Len(log)
                   /\ log[i + 1].op = "find_tree"
                   /\ log[i + 1].entry = e.row
             /\ (e.added /\ e.row.kind = object_type_to_int("Blob")) =>
                   \/ Pending(i)
                   \/ /\ i < Len(log)
                      /\ log[i + 1].op = "blob_exists"
                      /\ log[i + 1].entry = e.row
             /\ (e.added /\ e.row.kind \notin {object_type_to_int("Tree"),
                                               object_type_to_int("Blob")}) =>
                   NothingFurther(i)
    /\ \A j \in Ops("find_tree") :
          j - 1 \in AddedOf(object_type_to_int("Tree"))
          /\ log[j - 1].entry.row = log[j].entry
    /\ \A j \in Ops("blob_exists") :
          j - 1 \in AddedOf(object_type_to_int("Blob"))
          /\ log[j - 1].entry.row = log[j].entry
    /\ Cardinality(Ops("find_tree")) =
          Cardinality(AddedOf(object_type_to_int("Tree")))
    /\ Cardinality(Ops("blob_exists")) =
          Cardinality({i \in AddedOf(object_type_to_int("Blob")) : ~Pending(i)})

\* A run that ended well after no-op inserts, subtree reads and blob
\* checks
C15_Witness ==
    /\ pc = "done"
    /\ result = "ok"
    /\ \E i \in Visits : ~log[i].entry.added
    /\ Cardinality(Ops("find_tree")) >= 2
    /\ Cardinality(Ops("blob_exists")) >= 2

\* A byte string cut into chunks of the width of a hash
Chunks(bytes) ==
    [k \in 1..(Len(bytes) \div OidLen) |->
        SubSeq(bytes, (k - 1) * OidLen + 1, k * OidLen)]

\* The commit rows written, committed or not
CommitRowsWritten == Rows(commits) \cup Rows(tx.commits)

\* C16: the parents column of a Commit row is the concatenation of the
\* parent hashes in parent order, one 20-byte chunk each and nothing else:
\* its length is 20 times the number of parents and its 20-byte chunks are
\* the parents in order.
C16_ParentsFixedStride ==
    \A r \in CommitRowsWritten :
        LET ps == CommitParents(r.oid)
        IN /\ Len(r.parents) = 20 * Len(ps)
           /\ Chunks(r.parents) = [k \in 1..Len(ps) |-> OidBytes(ps[k])]

\* The rows of a root commit and of a merge of two parents are committed
C16_Witness ==
    /\ \E r \in Rows(commits) : r.oid = "c1" /\ r.parents = << >>
    /\ \E r \in Rows(commits) : r.oid = "c4" /\ Len(r.parents) = 40

RowClosed(r, store) ==
    /\ r.kind = object_type_to_int("Tree") =>
          \A i \in DOMAIN TreeObjs(r.oid) :
              TreeEntryRow(r.oid, TreeObjs(r.oid)[i]) \in Rows(store.tree_entries)
    /\ r.kind = object_type_to_int("Blob") =>
          \E b \in Rows(store.blobs) : b.oid = r.oid

\* C18: in every committed state of a store that started empty and that
\* only the engine writes, each TreeEntry row is closed: the entries of the
\* child tree of a tree-kind row have their rows and the blob of a
\* blob-kind row has its Blob row.
C18_CommittedRowsClosed ==
    \A r \in Rows(tree_entries) : RowClosed(r, Durable)

\* A committed store with rows of trees and of blobs, and a later run that
\* skips the child tree of one of the committed rows
C18_Witness ==
    /\ \E r \in Rows(tree_entries) : r.kind = object_type_to_int("Blob")
    /\ InTx
    /\ \E i \in Visits :
          /\ ~log[i].entry.added
          /\ log[i].entry.row.kind = object_type_to_int("Tree")
          /\ log[i].entry.row \in Rows(tree_entries)

\* Option<ObjectType>: None and the five object types
ObjectKinds == {"None", "Any", "Commit", "Tree", "Blob", "Tag"}

\* C19: the panic on an unknown kind tag is not reached during ingestion:
\* the rows decoded are the rows the conditional insert has just written
\* and returned, their kind comes from object_type_to_int and lies in 0..5,
\* and object_type_from_int(object_type_to_int(k)) = k for the six kinds.
C19_PanicUnreachable ==
    /\ result # "panic"
    /\ \A k \in ObjectKinds :
          /\ object_type_to_int(k) \in 0..5
          /\ object_type_from_int(object_type_to_int(k)) = k
    /\ \A i \in Visits :
          LET e == log[i].entry
          IN IF e.added
             THEN /\ e.row.kind \in 0..5
                  /\ e.row.kind = object_type_to_int(RepoObj(e.row).kind)
                  /\ e.decoded = RepoObj(e.row).kind
                  /\ InTx => e.row \in Rows(tx.tree_entries)
             ELSE e.decoded = "None"

\* A run that ended well after decoding a new row of each of the six kinds
C19_Witness ==
    /\ pc = "done"
    /\ result = "ok"
    /\ \A k \in ObjectKinds :
          \E i \in Visits : log[i].entry.added /\ log[i].entry.decoded = k

\* The operation an event of main's log sent to the store or the repository
OpOf(ev) ==
    [op |-> ev.op,
     arg |-> IF ev.op = "insert_tree_entry"
             THEN [row |-> ev.entry.row, added |-> ev.entry.added]
             ELSE IF ev.op = "insert_commit" THEN ev.entry
             ELSE ev.entry.oid]

\* An Ingestor made on the transaction of a run that started on the store
\* start, given the commits main has taken from the walker and as many
\* operations as main has made
IngestorRun(start, commit_oids, events) ==
    add_commits(IngestorNew(start, Len(events)), commit_oids)

\* main and the Ingestor have sent the same operations in the same order,
\* see the same tables, and the Ingestor is stopped inside add_commit when
\* main is inside its per-commit body
SameAsIngestor(ing, events, at, view, durable, res) ==
    /\ ing.ops = [i \in DOMAIN events |-> OpOf(events[i])]
    /\ at \in {"walk", "tree", "blob", "commit"} =>
          /\ ing.store = view
          /\ ing.failed <=> at \in {"tree", "blob", "commit"}
    /\ (at = "done" /\ res = "ok") =>
          /\ ing.store = durable
          /\ ~ing.failed

\* C20: Ingestor::add_commit (with add_tree, blob_exists and
\* insert_blob_content) and the per-commit body of main (with insert_tree)
\* are equivalent: on the same repository, the same starting store and the
\* same commit sequence, every step of main leaves the operations sent and
\* the commits, tree_entries and blobs tables as the Ingestor leaves them
\* after as many operations, and an operation that fails stops both at the
\* same step.
C20_IngestorRefinesMain ==
    [][SameAsIngestor(IngestorRun(preRun', yielded', log'), log', pc', tx',
                      Durable', result')]_vars

\* A run that ended well after two commits whose trees hold two new blobs,
\* which the Ingestor compresses into the buffer it uses again
C20_Witness ==
    /\ pc = "done"
    /\ result = "ok"
    /\ Len(yielded) >= 2
    /\ Cardinality(Ops("insert_blob")) >= 2
    /\ IngestorRun(preRun, yielded, log).buf # << >>
    /\ IngestorRun(preRun, yielded, log).store = Durable

=============================================================================
